---- MODULE Spec2Model ----
(***************************************************************************)
(* State-machine model of src/app.py: the Flask application of the IOP     *)
(* tracker.  OTP login kept in the Flask session, the users and iop_logs   *)
(* tables, the device ingestion endpoint and the pages that read the logs. *)
(*                                                                         *)
(* Python strings are modelled as tuples of one-character strings, so that *)
(* str.strip() and str.lower() are computed and not assumed.  A Flask      *)
(* session is a dict: a function whose DOMAIN is the set of keys present.  *)
(***************************************************************************)
EXTENDS Integers, Sequences, FiniteSets, TLC

\* ------------------------------------------------------------------ bounds

\* The wall clock runs over 1..MaxTime (minutes).
MaxTime == 7

\* random.randint draws are restricted to the codes that encode 0..MaxOtp.
MaxOtp == 1

\* At most MaxLogs rows are ever inserted into iop_logs.
MaxLogs == 2

\* The clock of the specification that fills iop_logs runs over 1..MaxStoreTime.
MaxStoreTime == 3

\* ------------------------------------------------------- program constants

\* timedelta(minutes=5)
OtpTtl == 5

\* range(6): the number of digits of a code
OtpLen == 6

\* LIMIT 10 of the dashboard and report queries
WindowLimit == 10

\* LIMIT 1 of /api/latest_data
LatestLimit == 1

\* alert thresholds
IopThreshold == 21

BlueLightThreshold == 25

ScreenTimeThreshold == 5

\* timedelta(days=7), in minutes
HistoryDefaultSpan == 10080

\* ------------------------------------------------------------------ values

\* Python's None, where it is compared with strings.
None == <<"None">>

\* JSON null / SQL NULL in a numeric column (every stored number is >= 0).
Null == -1

Sessions == {"s1", "s2"}

\* ----------------------------------------------------------------- strings

IsSpace(c) == c = " "

LowerChar(c) ==
    CASE c = "A" -> "a"
      [] c = "B" -> "b"
      [] OTHER -> c

\* str.lower()
Lower(str) == [i \in 1..Len(str) |-> LowerChar(str[i])]

RECURSIVE LStrip(_)
LStrip(str) ==
    IF str # <<>> /\ IsSpace(Head(str)) THEN LStrip(Tail(str)) ELSE str

RECURSIVE RStrip(_)
RStrip(str) ==
    IF str # <<>> /\ IsSpace(str[Len(str)])
    THEN RStrip(SubSeq(str, 1, Len(str) - 1))
    ELSE str

\* str.strip()
Strip(str) == RStrip(LStrip(str))

\* request.form['email'].strip().lower()
NormalizeEmail(raw) == Lower(Strip(raw))

DigitChar(d) ==
    CASE d = 0 -> "0" [] d = 1 -> "1" [] d = 2 -> "2" [] d = 3 -> "3"
      [] d = 4 -> "4" [] d = 5 -> "5" [] d = 6 -> "6" [] d = 7 -> "7"
      [] d = 8 -> "8" [] OTHER -> "9"

\* ''.join(str(random.randint(0, 9)) for _ in range(6)): the code whose digits
\* spell k
OtpOf(k) == [i \in 1..OtpLen |-> DigitChar((k \div (10 ^ (OtpLen - i))) % 10)]

\* ------------------------------------------------------------------- state

VARIABLES
    now,        \* datetime.now(), in minutes
    session,    \* session[s]: the Flask session dict of browser session s
    users,      \* rows of table users: [id, email]
    iop_logs,   \* rows of table iop_logs, in insertion order
    verifying,  \* verifying[s]: the verify_otp request of s between its SELECT and its INSERT
    resp,       \* the last HTTP response sent
    superseded, \* superseded[s]: the challenge the latest issue or resend of s overwrote
    proved      \* proved[s]: the emails for which s has passed verify_otp

vars == <<now, session, users, iop_logs, verifying, resp, superseded, proved>>

\* dict helpers: session.get(k), k in session, session[k] = v
Has(d, k) == k \in DOMAIN d

Put(d, k, v) == [x \in (DOMAIN d) \cup {k} |-> IF x = k THEN v ELSE d[x]]

EmptyDict == [x \in {} |-> None]

\* Python truthiness of session.get(k) for a str value: present and not ''
TruthyStr(d, k) == Has(d, k) /\ d[k] # None /\ d[k] # <<>>

\* session.get('authenticated')
Authenticated(sess) == Has(sess, "authenticated") /\ sess["authenticated"] = TRUE

Idle == [state |-> "idle"]

NoData == [kind |-> "none"]

Response(op, s, result, data) == [op |-> op, sid |-> s, result |-> result, data |-> data]

\* ------------------------------------------------------------------ inputs

\* what a client may type into the login form
EmailInputs == {<<"a">>, <<" ", "A">>, <<"b">>, <<" ">>}

\* the codes send_email_otp may draw
OtpCodes == {OtpOf(k) : k \in 0..MaxOtp}

\* what a client may type into the verify form: a code, or a code with
\* surrounding blanks
OtpInputs == OtpCodes \cup {<<" ">> \o OtpOf(0) \o <<" ">>}

\* --------------------------------------------------------- send_email_otp

\* send_email_otp(to_email): the drawn code when SMTP accepted the message,
\* None when the dispatch raised
send_email_otp(k, smtp_ok) == IF smtp_ok THEN OtpOf(k) ELSE None

\* `not otp`
SendFailed(otp) == otp = None \/ otp = <<>>

\* the message handed to smtp.send_message
Mail(to, otp) == [kind |-> "mail", to |-> to, otp |-> otp]

\* the challenge a session holds, as a list of zero or one [otp, otp_expiry]
Challenge(sess) ==
    IF Has(sess, "otp") /\ Has(sess, "otp_expiry")
    THEN <<[otp |-> sess["otp"], otp_expiry |-> sess["otp_expiry"]]>>
    ELSE <<>>

\* ------------------------------------------------------------------- login

\* the three session writes of login()
LoginCommit(sess, otp, email, t) ==
    Put(Put(Put(sess, "otp", otp), "otp_expiry", t + OtpTtl), "email", email)

\* Login that writes the session before it looks at the result of the send
LoginCommitsFirst(s, raw, k, smtp_ok) ==
    /\ verifying[s].state = "idle"
    /\ LET email == NormalizeEmail(raw)
           otp == send_email_otp(k, smtp_ok)
       IN  IF email = <<>>
           THEN /\ resp' = Response("login", s, "Email is required!", NoData)
                /\ UNCHANGED <<session, superseded>>
           ELSE /\ session' = [session EXCEPT ![s] = LoginCommit(@, OtpOf(k), email, now)]
                /\ superseded' = [superseded EXCEPT ![s] = Challenge(session[s])]
                /\ resp' = IF SendFailed(otp)
                           THEN Response("login", s, "Failed to send OTP. Try again later.", NoData)
                           ELSE Response("login", s, "OTP sent to your email.", Mail(email, otp))
    /\ UNCHANGED <<now, users, iop_logs, verifying, proved>>

\* POST /login
Login(s, raw, k, smtp_ok) ==
    /\ verifying[s].state = "idle"
    /\ LET email == NormalizeEmail(raw)
           otp == send_email_otp(k, smtp_ok)
       IN  IF email = <<>>
           THEN /\ resp' = Response("login", s, "Email is required!", NoData)
                /\ UNCHANGED <<session, superseded>>
           ELSE IF SendFailed(otp)
           THEN /\ resp' = Response("login", s, "Failed to send OTP. Try again later.", NoData)
                /\ UNCHANGED <<session, superseded>>
           ELSE /\ session' = [session EXCEPT ![s] = LoginCommit(@, otp, email, now)]
                /\ superseded' = [superseded EXCEPT ![s] = Challenge(session[s])]
                /\ resp' = Response("login", s, "OTP sent to your email.", Mail(email, otp))
    /\ UNCHANGED <<now, users, iop_logs, verifying, proved>>

\* ResendCommit that extends the expiry and keeps the code already stored
ResendKeepsCode(sess, otp, t) ==
    IF Has(sess, "otp") THEN Put(sess, "otp_expiry", t + OtpTtl)
    ELSE Put(Put(sess, "otp", otp), "otp_expiry", t + OtpTtl)

\* the two session writes of resend_otp()
ResendCommit(sess, otp, t) ==
    Put(Put(sess, "otp", otp), "otp_expiry", t + OtpTtl)

\* GET /resend_otp
ResendOtp(s, k, smtp_ok) ==
    /\ verifying[s].state = "idle"
    /\ IF ~TruthyStr(session[s], "email")
       THEN /\ resp' = Response("resend_otp", s, "Session expired. Please login again.", NoData)
            /\ UNCHANGED <<session, superseded>>
       ELSE LET new_otp == send_email_otp(k, smtp_ok)
            IN  IF ~SendFailed(new_otp)
                THEN /\ session' = [session EXCEPT ![s] = ResendCommit(@, new_otp, now)]
                     /\ superseded' = [superseded EXCEPT ![s] = Challenge(session[s])]
                     /\ resp' = Response("resend_otp", s, "OTP resent to your email.",
                                         Mail(session[s]["email"], new_otp))
                ELSE /\ resp' = Response("resend_otp", s, "Failed to resend OTP.", NoData)
                     /\ UNCHANGED <<session, superseded>>
    /\ UNCHANGED <<now, users, iop_logs, verifying, proved>>

\* ------------------------------------------------------------------ verify

\* OtpExpired with the boundary instant counted as expired
OtpExpiredAtBoundary(sess, t) ==
    \/ ~Has(sess, "otp_expiry")
    \/ sess["otp_expiry"] = 0
    \/ t >= sess["otp_expiry"]

\* `not expiry or datetime.now().timestamp() > expiry`
OtpExpired(sess, t) ==
    \/ ~Has(sess, "otp_expiry")
    \/ sess["otp_expiry"] = 0
    \/ t > sess["otp_expiry"]

\* `entered == correct`, entered already stripped
OtpMatches(entered, sess) == Has(sess, "otp") /\ entered = sess["otp"]

\* SELECT id FROM users WHERE email = %s
FindUser(email) == {u \in users : u.email = email}

\* str(uuid.uuid4()): an id no row and no request in flight holds
InUseIds == {u.id : u \in users} \cup
            {verifying[s].user_id : s \in {x \in Sessions : verifying[x].state # "idle"}}

NewUuid == CHOOSE n \in 1..(Cardinality(InUseIds) + 1) : n \notin InUseIds

\* InsertUser without the conflict clause and the UNIQUE constraint behind it
InsertUserAlways(rows, id, email) == rows \cup {[id |-> id, email |-> email]}

\* INSERT INTO users (id, email) VALUES (..) ON CONFLICT (email) DO NOTHING
InsertUser(rows, id, email) ==
    IF \E u \in rows : u.email = email THEN rows ELSE rows \cup {[id |-> id, email |-> email]}

\* POST /verify_otp, up to and including the SELECT
VerifyOtp(s, raw) ==
    /\ verifying[s].state = "idle"
    /\ LET entered == Strip(raw)
       IN  IF OtpExpired(session[s], now)
           THEN /\ resp' = Response("verify_otp", s, "OTP expired. Please login again.", [kind |-> "form", otp |-> raw])
                /\ UNCHANGED verifying
           ELSE IF OtpMatches(entered, session[s])
           THEN LET email == session[s]["email"]
                    user == FindUser(email)
                    user_id == IF user # {} THEN (CHOOSE u \in user : TRUE).id ELSE NewUuid
                IN  /\ verifying' = [verifying EXCEPT ![s] =
                            [state |-> "insert", email |-> email, user_id |-> user_id, otp |-> raw]]
                    /\ UNCHANGED resp
           ELSE /\ resp' = Response("verify_otp", s, "Incorrect OTP.", [kind |-> "form", otp |-> raw])
                /\ UNCHANGED verifying
    /\ UNCHANGED <<now, session, users, iop_logs, superseded, proved>>

\* POST /verify_otp, from the INSERT to the redirect
VerifyInsert(s) ==
    /\ verifying[s].state # "idle"
    /\ users' = InsertUser(users, verifying[s].user_id, verifying[s].email)
    /\ session' = [session EXCEPT ![s] = Put(@, "authenticated", TRUE)]
    /\ resp' = Response("verify_otp", s, "Login successful!", [kind |-> "form", otp |-> verifying[s].otp])
    /\ verifying' = [verifying EXCEPT ![s] = Idle]
    /\ proved' = [proved EXCEPT ![s] = @ \cup {verifying[s].email}]
    /\ UNCHANGED <<now, iop_logs, superseded>>

\* the clock advances, up to the bound of the specification
Tick(limit) ==
    /\ now < limit
    /\ now' = now + 1
    /\ UNCHANGED <<session, users, iop_logs, verifying, resp, superseded, proved>>

\* ------------------------------------------------------------- the queries

Min(a, b) == IF a < b THEN a ELSE b

Reverse(seq) == [i \in 1..Len(seq) |-> seq[Len(seq) + 1 - i]]

\* the positions in iop_logs of the rows WHERE user_id = uid AND timestamp
\* BETWEEN lo AND hi
RowsOf(uid, lo, hi) ==
    {i \in DOMAIN iop_logs :
        /\ iop_logs[i].user_id = uid
        /\ lo <= iop_logs[i].timestamp
        /\ iop_logs[i].timestamp <= hi}

\* ORDER BY timestamp DESC: every order of the positions S that is
\* non-increasing in timestamp (rows of equal timestamp come in any order)
OrderByTimestampDesc(S) ==
    {ord \in [1..Cardinality(S) -> S] :
        /\ \A i, j \in 1..Cardinality(S) : i # j => ord[i] # ord[j]
        /\ \A i, j \in 1..Cardinality(S) :
              i < j => iop_logs[ord[i]].timestamp >= iop_logs[ord[j]].timestamp}

\* SELECT iop, blue_light, screen_time, timestamp ... LIMIT n
SelectRows(ord, n) ==
    [i \in 1..Min(n, Len(ord)) |->
        [iop |-> iop_logs[ord[i]].iop,
         blue_light |-> iop_logs[ord[i]].blue_light,
         screen_time |-> iop_logs[ord[i]].screen_time,
         timestamp |-> iop_logs[ord[i]].timestamp]]

\* `latest = rows[-1] if rows else None`, as a list of zero or one row
LatestOf(rows) == IF rows # <<>> THEN <<rows[Len(rows)]>> ELSE <<>>

\* `x > threshold` raises TypeError when x is None
RaisesTypeError(latest) ==
    /\ latest # <<>>
    /\ \/ latest[1].iop = Null
       \/ latest[1].blue_light = Null
       \/ latest[1].screen_time = Null

\* the alerts block of dashboard() and report()
AlertsOf(latest) ==
    IF latest = <<>> THEN <<>>
    ELSE (IF latest[1].iop > IopThreshold
          THEN <<"High IOP detected! Consult a doctor.">> ELSE <<>>)
      \o (IF latest[1].blue_light > BlueLightThreshold
          THEN <<"High blue light exposure. Take a break!">> ELSE <<>>)
      \o (IF latest[1].screen_time > ScreenTimeThreshold
          THEN <<"Reduce screen time to prevent eye strain.">> ELSE <<>>)

Column(rows, c) == [i \in 1..Len(rows) |-> rows[i][c]]

\* ------------------------------------------------------- the gated pages

\* Denied that looks at the session's email instead of its authenticated flag
DeniedWithoutEmail(sess) == ~TruthyStr(sess, "email")

\* `if not session.get('authenticated'): return redirect(url_for('login'))`
Denied(sess) == ~Authenticated(sess)

Deny(op, s) == Response(op, s, "redirect:login", NoData)

UserNotFound(op, s) == Response(op, s, "User not found.", NoData)

\* the page dashboard() and report() render from the rows of the window
Page(op, s, rows) ==
    IF RaisesTypeError(LatestOf(rows))
    THEN Response(op, s, "500", NoData)
    ELSE Response(op, s, "200",
            [kind |-> "page",
             latest |-> LatestOf(rows),
             alerts |-> AlertsOf(LatestOf(rows)),
             iop_values |-> Reverse(Column(rows, "iop")),
             timestamps |-> Reverse(Column(rows, "timestamp"))])

\* what a gated reader of the window does with the store
ReadWindow(op, s) ==
    IF Denied(session[s])
    THEN resp' = Deny(op, s)
    ELSE LET user == FindUser(session[s]["email"])
         IN  IF user = {}
             THEN resp' = UserNotFound(op, s)
             ELSE \E u \in user :
                  \E ord \in OrderByTimestampDesc(RowsOf(u.id, 0, MaxTime)) :
                      resp' = Page(op, s, SelectRows(ord, WindowLimit))

\* GET /dashboard
Dashboard(s) ==
    /\ verifying[s].state = "idle"
    /\ ReadWindow("dashboard", s)
    /\ UNCHANGED <<now, session, users, iop_logs, verifying, superseded, proved>>

\* GET /report
Report(s) ==
    /\ verifying[s].state = "idle"
    /\ ReadWindow("report", s)
    /\ UNCHANGED <<now, session, users, iop_logs, verifying, superseded, proved>>

\* request.args.get('start') / ('end'): absent, not a date, or a date
DateArgs == {[kind |-> "absent"], [kind |-> "bad"], [kind |-> "date", t |-> 2]}

\* the try/except of history(): the parsed range, or the default range when
\* either argument does not parse
HistoryRange(start, end, t) ==
    IF start.kind = "bad" \/ end.kind = "bad"
    THEN [lo |-> t - HistoryDefaultSpan, hi |-> t]
    ELSE [lo |-> IF start.kind = "date" THEN start.t ELSE t - HistoryDefaultSpan,
          hi |-> IF end.kind = "date" THEN end.t ELSE t]

\* GET /history
History(s, start, end) ==
    /\ verifying[s].state = "idle"
    /\ IF Denied(session[s])
       THEN resp' = Deny("history", s)
       ELSE LET user == FindUser(session[s]["email"])
                range == HistoryRange(start, end, now)
            IN  IF user = {}
                THEN resp' = UserNotFound("history", s)
                ELSE \E u \in user :
                     \E ord \in OrderByTimestampDesc(RowsOf(u.id, range.lo, range.hi)) :
                         resp' = Response("history", s, "200",
                                    [kind |-> "logs",
                                     logs |-> SelectRows(ord, Len(ord)),
                                     start |-> range.lo, end |-> range.hi])
    /\ UNCHANGED <<now, session, users, iop_logs, verifying, superseded, proved>>

\* GET /hospitals
Hospitals(s) ==
    /\ verifying[s].state = "idle"
    /\ resp' = IF Denied(session[s])
               THEN Deny("hospitals", s)
               ELSE Response("hospitals", s, "200", [kind |-> "static"])
    /\ UNCHANGED <<now, session, users, iop_logs, verifying, superseded, proved>>

\* GET /api/latest_data
LatestData(s) ==
    /\ verifying[s].state = "idle"
    /\ LET user == IF Has(session[s], "email") THEN FindUser(session[s]["email"]) ELSE {}
       IN  IF user = {}
           THEN resp' = Response("latest_data", s, "200", [kind |-> "json", row |-> <<>>])
           ELSE \E u \in user :
                \E ord \in OrderByTimestampDesc(RowsOf(u.id, 0, MaxTime)) :
                    resp' = Response("latest_data", s, "200",
                               [kind |-> "json", row |-> SelectRows(ord, LatestLimit)])
    /\ UNCHANGED <<now, session, users, iop_logs, verifying, superseded, proved>>

\* ---------------------------------------------------------------- send_data

\* the JSON objects a device may post: the email absent (None) or a string,
\* each number absent (Null) or given; 0 is a number that Python counts false
Measurements ==
    {[iop |-> 22, blue_light |-> 10, screen_time |-> 1],
     [iop |-> 0, blue_light |-> 30, screen_time |-> 6],
     [iop |-> 20, blue_light |-> Null, screen_time |-> Null],
     [iop |-> Null, blue_light |-> 30, screen_time |-> 6]}

DeviceEmails == {None, <<>>, <<"a">>, <<"A">>, <<"b">>}

\* MissingRequired that forgets the iop value
MissingEmailOnly(email, iop) == email = None \/ email = <<>>

\* `not email or iop is None`
MissingRequired(email, iop) == email = None \/ email = <<>> \/ iop = Null

\* INSERT INTO iop_logs (user_id, iop, blue_light, screen_time); timestamp
\* defaults to CURRENT_TIMESTAMP
InsertLog(rows, user_id, m, t) ==
    Append(rows, [user_id |-> user_id, iop |-> m.iop, blue_light |-> m.blue_light,
                  screen_time |-> m.screen_time, timestamp |-> t])

\* the request a /send_data response answers
Posted(email, m) == [kind |-> "posted", email |-> email, iop |-> m.iop]

\* POST /send_data with a JSON object
SendData(email, m) ==
    /\ Len(iop_logs) < MaxLogs
    /\ IF MissingRequired(email, m.iop)
       THEN /\ resp' = Response("send_data", "device", "400", Posted(email, m))
            /\ UNCHANGED iop_logs
       ELSE IF FindUser(email) = {}
       THEN /\ resp' = Response("send_data", "device", "404", Posted(email, m))
            /\ UNCHANGED iop_logs
       ELSE \E u \in FindUser(email) :
            /\ iop_logs' = InsertLog(iop_logs, u.id, m, now)
            /\ resp' = Response("send_data", "device", "200", Posted(email, m))
    /\ UNCHANGED <<now, session, users, verifying, superseded, proved>>

\* POST /send_data whose body is not a JSON object: data.get raises
SendDataNoJson ==
    /\ resp' = Response("send_data", "device", "500", NoData)
    /\ UNCHANGED <<now, session, users, iop_logs, verifying, superseded, proved>>

\* ---------------------------------------------------------- specification

Init ==
    /\ now = 1
    /\ session = [s \in Sessions |-> EmptyDict]
    /\ users = {}
    /\ iop_logs = <<>>
    /\ verifying = [s \in Sessions |-> Idle]
    /\ resp = Response("none", "none", "none", NoData)
    /\ superseded = [s \in Sessions |-> <<>>]
    /\ proved = [s \in Sessions |-> {}]

\* Every request of every session, the device and the clock.  The
\* specifications below it take the same actions with narrower inputs, each
\* small enough to be explored exhaustively.
Next ==
    \/ Tick(MaxTime)
    \/ \E s \in Sessions, raw \in EmailInputs, k \in 0..MaxOtp, smtp_ok \in BOOLEAN :
          Login(s, raw, k, smtp_ok)
    \/ \E s \in Sessions, k \in 0..MaxOtp, smtp_ok \in BOOLEAN : ResendOtp(s, k, smtp_ok)
    \/ \E s \in Sessions, raw \in OtpInputs : VerifyOtp(s, raw)
    \/ \E s \in Sessions : VerifyInsert(s)
    \/ \E s \in Sessions : Dashboard(s)
    \/ \E s \in Sessions : Report(s)
    \/ \E s \in Sessions, start \in DateArgs, end \in DateArgs : History(s, start, end)
    \/ \E s \in Sessions : Hospitals(s)
    \/ \E s \in Sessions : LatestData(s)
    \/ \E email \in DeviceEmails, m \in Measurements : SendData(email, m)
    \/ SendDataNoJson

Spec == Init /\ [][Next]_vars

\* One browser session going through the OTP flow while the clock runs.
NextLogin ==
    \/ Tick(MaxTime)
    \/ \E raw \in EmailInputs, k \in 0..MaxOtp, smtp_ok \in BOOLEAN : Login("s1", raw, k, smtp_ok)
    \/ \E k \in 0..MaxOtp, smtp_ok \in BOOLEAN : ResendOtp("s1", k, smtp_ok)
    \/ \E raw \in OtpInputs : VerifyOtp("s1", raw)
    \/ VerifyInsert("s1")

SpecLogin == Init /\ [][NextLogin]_vars

\* Two browser sessions that log in for the same email at the same instant
\* and read every page, while the device posts a reading for that email.
NextPages ==
    \/ \E s \in Sessions, raw \in {<<"a">>, <<" ", "A">>}, smtp_ok \in BOOLEAN :
          Login(s, raw, 0, smtp_ok)
    \/ \E s \in Sessions, smtp_ok \in BOOLEAN : ResendOtp(s, 0, smtp_ok)
    \/ \E s \in Sessions, raw \in {OtpOf(0), OtpOf(1)} : VerifyOtp(s, raw)
    \/ \E s \in Sessions : VerifyInsert(s)
    \/ \E s \in Sessions : Dashboard(s)
    \/ \E s \in Sessions : Report(s)
    \/ \E s \in Sessions, start \in DateArgs, end \in DateArgs : History(s, start, end)
    \/ \E s \in Sessions : Hospitals(s)
    \/ \E s \in Sessions : LatestData(s)
    \/ SendData(<<"a">>, [iop |-> 22, blue_light |-> 10, screen_time |-> 1])

SpecPages == Init /\ [][NextPages]_vars

\* One session logged in as "a" while the device posts readings over time.
NextStore ==
    \/ Tick(MaxStoreTime)
    \/ Login("s1", <<"a">>, 0, TRUE)
    \/ VerifyOtp("s1", OtpOf(0))
    \/ VerifyInsert("s1")
    \/ Dashboard("s1")
    \/ Report("s1")
    \/ \E email \in DeviceEmails, m \in Measurements : SendData(email, m)
    \/ SendDataNoJson

SpecStore == Init /\ [][NextStore]_vars

\* ------------------------------------------------------------ the claims

VerifyResponse(r) == r.op = "verify_otp"

Accepting(s) == verifying[s].state = "idle" /\ verifying'[s].state = "insert"

Committing(s) == verifying[s].state = "insert" /\ verifying'[s].state = "idle"

\* C1: a challenge is usable at most once.  When the last response is the
\* successful verification of session s and s, with no issue or resend since,
\* has submitted the same code again and passed both checks of verify_otp,
\* that second request does not end in "Login successful!".
C1_OtpUsableOnce ==
    [][\A s \in Sessions :
          (/\ VerifyResponse(resp) /\ resp.sid = s /\ resp.result = "Login successful!"
           /\ verifying[s].state = "insert"
           /\ verifying[s].otp = resp.data.otp)
          => ~(Committing(s) /\ resp'.result = "Login successful!")]_vars

\* The contract of verify_otp, the entered code compared with the challenge
\* code as typed (stripped = FALSE) or after str.strip() (stripped = TRUE):
\*  - a request is accepted only with a challenge present, now <= otp_expiry
\*    and the entered code the same as the challenge code;
\*  - the authenticated flag rises only when an accepted request commits;
\*  - "OTP expired" is answered only without a challenge or after otp_expiry;
\*  - "Incorrect OTP." is answered only with a live challenge and a code that
\*    is not the same; and neither failure changes the session.
SameCode(stripped, entered, code) ==
    IF stripped THEN Strip(entered) = code ELSE entered = code

VerifyContract(stripped) ==
    \A s \in Sessions :
       /\ Accepting(s) =>
             /\ Challenge(session[s]) # <<>>
             /\ now <= session[s]["otp_expiry"]
             /\ SameCode(stripped, verifying'[s].otp, session[s]["otp"])
       /\ (Authenticated(session'[s]) /\ ~Authenticated(session[s])) => Committing(s)
       /\ Committing(s) => Authenticated(session'[s])
       /\ (resp' # resp /\ VerifyResponse(resp') /\ resp'.sid = s
              /\ resp'.result = "OTP expired. Please login again.") =>
             /\ Challenge(session[s]) = <<>> \/ now > session[s]["otp_expiry"]
             /\ session'[s] = session[s]
       /\ (resp' # resp /\ VerifyResponse(resp') /\ resp'.sid = s
              /\ resp'.result = "Incorrect OTP.") =>
             /\ Challenge(session[s]) # <<>>
             /\ now <= session[s]["otp_expiry"]
             /\ ~SameCode(stripped, resp'.data.otp, session[s]["otp"])
             /\ session'[s] = session[s]

\* C2 as stated: verify-login succeeds exactly when a challenge is present,
\* now <= expires_at and the entered code is string-equal to the challenge
\* code; otherwise ExpiredOtp (checked first) or IncorrectOtp, the flag kept.
C2_VerifyStringEqual == [][VerifyContract(FALSE)]_vars

\* C2 as amended: the same contract, the entered code compared after its
\* surrounding whitespace is stripped.
C2_VerifyAfterStrip == [][VerifyContract(TRUE)]_vars

\* a code typed with surrounding blanks is accepted at the last valid instant
C2_Witness ==
    \E s \in Sessions :
       /\ verifying[s].state = "insert"
       /\ now = session[s]["otp_expiry"]
       /\ verifying[s].otp # session[s]["otp"]

\* the response of a successful issue or resend carries the mail it sent
Issued(r) == r.op \in {"login", "resend_otp"} /\ r.data.kind = "mail"

MailFailed(r) ==
    \/ r.op = "login" /\ r.result = "Failed to send OTP. Try again later."
    \/ r.op = "resend_otp" /\ r.result = "Failed to resend OTP."

\* C7: when the mail dispatch of an issue or resend fails, the session (code,
\* expiry, email, authenticated flag) is exactly what it was before the call.
C7_FailedDispatchCommitsNothing ==
    [][\A s \in Sessions :
          (resp' # resp /\ MailFailed(resp') /\ resp'.sid = s) => session'[s] = session[s]]_vars

\* a failed issue on a fresh session left it without a challenge
C7_Witness ==
    \E s \in Sessions :
       /\ MailFailed(resp) /\ resp.sid = s /\ resp.op = "login"
       /\ session[s] = EmptyDict
       /\ OtpExpired(session[s], now)

UserIds == {u.id : u \in users}

\* C6: after any interleaving of successful verifications the users table holds
\* exactly one row per normalized email: a commit for an email that has a row
\* leaves the table as it is, a commit for an unseen email adds exactly one
\* row, and that row holds the normalized email.
C6_OneUserPerEmail ==
    /\ [](\A u, v \in users :
             NormalizeEmail(u.email) = NormalizeEmail(v.email) => u = v)
    /\ [][\A s \in Sessions :
             Committing(s) =>
                IF \E u \in users : u.email = verifying[s].email
                THEN users' = users
                ELSE /\ Cardinality(users') = Cardinality(users) + 1
                     /\ \E u \in users' \ users : u.email = NormalizeEmail(verifying[s].email)]_vars

\* two first logins for one email raced: the row of the first is committed
\* while the second, which read "absent" and drew its own id, is about to insert
C6_Witness ==
    \E s \in Sessions : \E u \in users :
       /\ verifying[s].state = "insert"
       /\ u.email = verifying[s].email
       /\ u.id # verifying[s].user_id

\* C10: /api/latest_data returns a reading only to a session whose
\* authenticated flag is set.
C10_LatestDataGated ==
    (resp.op = "latest_data" /\ resp.data.row # <<>>) => Authenticated(session[resp.sid])

GatedOps == {"dashboard", "history", "report", "hospitals"}

Refused(r) == r.op \in GatedOps /\ r.result = "redirect:login"

\* C4: dashboard, history, report and hospitals run their body only for a
\* session whose authenticated flag is set; the flag is set only by the commit
\* of an accepted verify_otp of that session; a refusal changes neither the
\* session state nor the store.
C4_GatedPages ==
    /\ []((resp.op \in GatedOps /\ ~Refused(resp)) => Authenticated(session[resp.sid]))
    /\ []((resp.op \in GatedOps /\ Refused(resp)) => ~Authenticated(session[resp.sid]))
    /\ [][\A s \in Sessions :
             (Authenticated(session'[s]) /\ ~Authenticated(session[s])) =>
                /\ Committing(s)
                /\ VerifyResponse(resp') /\ resp'.sid = s
                /\ resp'.result = "Login successful!"]_vars
    /\ [][(resp' # resp /\ Refused(resp')) =>
             UNCHANGED <<session, users, iop_logs, verifying>>]_vars

\* a session that holds a live, unverified challenge was refused a gated page
\* while the store held a user with a reading
C4_Witness ==
    /\ Refused(resp)
    /\ Challenge(session[resp.sid]) # <<>>
    /\ ~OtpExpired(session[resp.sid], now)
    /\ users # {}
    /\ iop_logs # <<>>

SendDataResponse(r) == r.op = "send_data" /\ r.data.kind = "posted"

\* C8: send_data appends a reading only when the request carries an email and
\* an iop value and a user has that email; it answers 400 exactly when the
\* email or the iop value is absent and 404 exactly when both are present and
\* no user has the email, and then stores no reading and creates no user;
\* every stored reading references an existing user.
C8_IngestValidated ==
    /\ [](\A i \in DOMAIN iop_logs : iop_logs[i].user_id \in UserIds)
    /\ [][iop_logs' # iop_logs =>
             /\ SendDataResponse(resp') /\ resp'.result = "200"
             /\ Len(iop_logs') = Len(iop_logs) + 1
             /\ SubSeq(iop_logs', 1, Len(iop_logs)) = iop_logs]_vars
    /\ [][(resp' # resp /\ SendDataResponse(resp')) =>
             LET absent == \/ resp'.data.email = None
                           \/ resp'.data.email = <<>>
                           \/ resp'.data.iop = Null
                 known == \E u \in users : u.email = resp'.data.email
             IN  /\ users' = users
                 /\ resp'.result = "400" <=> absent
                 /\ resp'.result = "404" <=> (~absent /\ ~known)
                 /\ resp'.result = "200" <=> (~absent /\ known)
                 /\ resp'.result # "200" => iop_logs' = iop_logs
                 /\ resp'.result = "200" =>
                       /\ iop_logs' # iop_logs
                       /\ iop_logs'[Len(iop_logs')].iop = resp'.data.iop
                       /\ \E u \in users :
                             /\ u.email = resp'.data.email
                             /\ iop_logs'[Len(iop_logs')].user_id = u.id]_vars

\* with a user in the table, a complete request for an email no user has was
\* answered 404 and stored nothing
C8_Witness ==
    /\ SendDataResponse(resp) /\ resp.result = "404"
    /\ users # {}
    /\ resp.data.iop # Null
    /\ iop_logs = <<>>

\* C9: an authenticated session's email is one for which that session has
\* passed verify_otp.
C9_AuthenticatedEmailVerified ==
    \A s \in Sessions : Authenticated(session[s]) => session[s]["email"] \in proved[s]

MaxTimestamp(S) == CHOOSE t \in {iop_logs[i].timestamp : i \in S} :
                      \A i \in S : iop_logs[i].timestamp <= t

\* C5: the "latest" reading and the alerts of dashboard and report come from
\* a reading with the greatest timestamp among the user's readings.
C5_LatestIsNewest ==
    (resp.op \in {"dashboard", "report"} /\ resp.result = "200" /\ resp.data.latest # <<>>) =>
       \E u \in FindUser(session[resp.sid]["email"]) :
          \E i \in RowsOf(u.id, 0, MaxTime) :
             /\ iop_logs[i].timestamp = MaxTimestamp(RowsOf(u.id, 0, MaxTime))
             /\ resp.data.latest[1].timestamp = iop_logs[i].timestamp
             /\ resp.data.latest[1].iop = iop_logs[i].iop
             /\ resp.data.alerts = AlertsOf(<<iop_logs[i]>>)

====
